---- MODULE Spec2Model ----
(***************************************************************************)
(* A model of cbf: the schema parser (advanced and simple dialect), the    *)
(* Option entity and the modify operation (derived copy, add-command).     *)
(*                                                                         *)
(* Strings are sequences of one-character strings, so that the parser's    *)
(* string operations (indexOf, replace, substring) are computed and not    *)
(* assumed.  A Script is a record of three mappings keyed by hierarchical  *)
(* keys; a mapping is a function whose DOMAIN is the set of its keys.      *)
(***************************************************************************)
EXTENDS Integers, Sequences, FiniteSets, TLC

VARIABLES
    pc,           \* position of the program
    scriptType,   \* "advanced" or "simple": the dialect of the declaration file
    nodes,        \* advanced declaration: path -> node (tags, command, children)
    isString,     \* simple declaration: the file is one bare directive string
    flatKeys,     \* simple declaration: the flat mapping's keys, in insertion order
    script,       \* the Script (the registry's object for the script name)
    parses,       \* number of parses done
    lastFile,     \* history: the flat keys of the latest simple parse
    prevFile,     \* history: the flat keys of the simple parse before it
    prevScript,   \* history: script as it was before the latest parse
    derived,      \* modify mode: the derived copy the menu walks
    current,      \* modify mode: the key of the Option the menu displays
    adder,        \* add-command: the CommandAdder (questions asked, answers)
    target,       \* add-command: optionKey, and commandKey once it is computed
    confirmed,    \* history: the answer to the replace confirmation
    saves,        \* number of GlobalConfig.save() calls
    adds,         \* number of add-command sessions that ran to their end
    outstanding,  \* add-command: prompts requested and not yet answered
    touched,      \* add-command: times the session added the command or
                  \* issued the replace confirmation
    globalConfig, \* delete: the registry (scripts by name, list of script names)
    args,         \* delete: the arguments of the operation
    scriptName,   \* delete: the name the confirmation prompt is about
    shouldDelete, \* history: the answer to the delete confirmation
    exits         \* number of safeExit() calls

parseVars == <<scriptType, nodes, isString, flatKeys, parses, lastFile, prevFile,
               prevScript>>
modifyVars == <<derived, current, adder, target, confirmed, saves, adds,
                outstanding, touched>>
deleteVars == <<globalConfig, args, scriptName, shouldDelete, exits>>
vars == <<pc, script, parseVars, modifyVars, deleteVars>>

(***************************************************************************)
(* Bounds of the model.                                                    *)
(***************************************************************************)
MaxNodes == 2    \* nodes declared below the root of an advanced declaration
MaxKeys == 2     \* keys of one flat mapping
MaxParses == 2   \* parses of a simple file that is edited between them
MaxAdds == 2     \* add-command sessions on one saved Script

(***************************************************************************)
(* Strings.                                                                *)
(***************************************************************************)
KEY_SEPARATOR == <<".">>
SIMPLE_SCRIPT_OPTION_SEPARATOR == <<":">>
BACK_COMMAND == <<"b", "a", "c", "k">>
QUIT_COMMAND == <<"q", "u", "i", "t">>
ADD_COMMAND == <<"a", "d", "d", "-", "c", "o", "m", "m", "a", "n", "d">>

\* The script name (the top-level tag of the file).
ScriptName == <<"s">>

\* s.indexOf(sub) === at: sub occurs in s at the 0-based offset at.
OccursAt(s, sub, at) ==
    /\ at + Len(sub) <= Len(s)
    /\ \A i \in 1..Len(sub) : s[at + i] = sub[i]

\* String.prototype.indexOf: the first 0-based offset of sub in s, or -1.
IndexOf(s, sub) ==
    LET hits == {at \in 0..Len(s) : OccursAt(s, sub, at)}
    IN  IF hits = {} THEN -1
        ELSE CHOOSE at \in hits : \A other \in hits : at <= other

\* String.prototype.substring(from, to), 0-based, to exclusive.
Substring(s, from, to) == SubSeq(s, from + 1, to)

\* s.replace(new RegExp(sub), ''): the first occurrence of sub removed
\* (sub holds no regular-expression metacharacter in this model).
RemoveFirst(s, sub) ==
    LET at == IndexOf(s, sub)
    IN  IF at = -1 THEN s
        ELSE Substring(s, 0, at) \o Substring(s, at + Len(sub), Len(s))

\* s.replace(/c/g, by): every character c replaced by the string by.
RECURSIVE ReplaceAll(_, _, _)
ReplaceAll(s, c, by) ==
    IF s = <<>> THEN <<>>
    ELSE (IF <<Head(s)>> = c THEN by ELSE <<Head(s)>>) \o ReplaceAll(Tail(s), c, by)

\* Array.prototype.includes.
Includes(arr, x) == \E i \in 1..Len(arr) : arr[i] = x

\* Array.prototype.indexOf, 0-based, -1 when absent.
ArrayIndexOf(arr, x) ==
    IF ~Includes(arr, x) THEN -1
    ELSE (CHOOSE i \in 1..Len(arr) : arr[i] = x /\ \A j \in 1..(i - 1) : arr[j] # x) - 1

\* Array.prototype.filter((x, i, arr) => arr.indexOf(x) === i), and the order
\* of [...new Set(arr)]: the first occurrence of each element, in order.
RECURSIVE Dedupe(_)
Dedupe(arr) ==
    IF arr = <<>> THEN <<>>
    ELSE LET init == Dedupe(SubSeq(arr, 1, Len(arr) - 1))
             last == arr[Len(arr)]
         IN  IF Includes(init, last) THEN init ELSE Append(init, last)

Elements(arr) == {arr[i] : i \in 1..Len(arr)}

(***************************************************************************)
(* Object.keys: the own keys of a JavaScript object.  Keys that are        *)
(* canonical array indices come first, in ascending numeric order; the     *)
(* other keys follow in insertion order.                                   *)
(***************************************************************************)
Digits == {"0", "1", "2", "3", "4", "5", "6", "7", "8", "9"}

DigitValue(c) ==
    CASE c = "0" -> 0 [] c = "1" -> 1 [] c = "2" -> 2 [] c = "3" -> 3
      [] c = "4" -> 4 [] c = "5" -> 5 [] c = "6" -> 6 [] c = "7" -> 7
      [] c = "8" -> 8 [] OTHER -> 9

\* A canonical numeric string: digits only, no leading zero but "0" itself.
IsArrayIndex(k) ==
    /\ k # <<>>
    /\ \A i \in 1..Len(k) : k[i] \in Digits
    /\ (Len(k) > 1 => k[1] # "0")

RECURSIVE NumericValue(_)
NumericValue(k) ==
    IF k = <<>> THEN 0
    ELSE 10 * NumericValue(SubSeq(k, 1, Len(k) - 1)) + DigitValue(k[Len(k)])

RECURSIVE SelectSeqBy(_, _)
\* the elements of arr that are (want = TRUE) or are not array indices, in order
SelectSeqBy(arr, want) ==
    IF arr = <<>> THEN <<>>
    ELSE (IF IsArrayIndex(Head(arr)) = want THEN <<Head(arr)>> ELSE <<>>)
         \o SelectSeqBy(Tail(arr), want)

RECURSIVE AscendingNumeric(_)
AscendingNumeric(ks) ==
    IF ks = {} THEN <<>>
    ELSE LET least == CHOOSE k \in ks : \A o \in ks : NumericValue(k) <= NumericValue(o)
         IN  <<least>> \o AscendingNumeric(ks \ {least})

\* inserted: the keys of the object in insertion order (no key twice).
ObjectKeys(inserted) ==
    AscendingNumeric(Elements(SelectSeqBy(inserted, TRUE))) \o SelectSeqBy(inserted, FALSE)

(***************************************************************************)
(* Entity model: Option, Command, Directory, Script.                       *)
(***************************************************************************)
\* new Option({ name, choices }): message defaults to ''.
NewOption(name, choices) == [name |-> name, message |-> <<>>, choices |-> choices]

\* new Command({ directives }).
NewCommand(directives) == [directives |-> directives, message |-> <<>>]

\* new Script({ name }): no option, no command, no directory.
NewScript(name) ==
    [name |-> name, options |-> <<>>, commands |-> <<>>, directories |-> <<>>]

\* obj[k] = v on a mapping.
Put(map, k, v) == [x \in (DOMAIN map) \cup {k} |-> IF x = k THEN v ELSE map[x]]

\* Script.addOption / Script.ScriptUpdateOption: replace by key.
ScriptUpdateOption(s, optionKey, option) ==
    [s EXCEPT !.options = Put(s.options, optionKey, option)]

\* Script.addCommand / Script.ScriptUpdateCommand: replace by key.
ScriptUpdateCommand(s, commandKey, command) ==
    [s EXCEPT !.commands = Put(s.commands, commandKey, command)]

\* Script.ScriptUpdateDirectory: replace by key.
ScriptUpdateDirectory(s, directoryKey, directory) ==
    [s EXCEPT !.directories = Put(s.directories, directoryKey, directory)]

ScriptHasOption(s, optionKey) == optionKey \in DOMAIN s.options

\* Script.getCommand(key) is truthy.
ScriptGetCommand(s, commandKey) == commandKey \in DOMAIN s.commands

\* `${key}.${name}`
ChildKey(key, name) == key \o KEY_SEPARATOR \o name

\* getNameFromKey: the last segment of a hierarchical key.
RECURSIVE getNameFromKey(_)
getNameFromKey(key) ==
    LET at == IndexOf(key, KEY_SEPARATOR)
    IN  IF at = -1 THEN key ELSE getNameFromKey(Substring(key, at + 1, Len(key)))

\* getUndocumentedChoices: the choices that are not the injected back / quit.
getUndocumentedChoices(choices) ==
    SelectSeq(choices, LAMBDA c : c \notin {BACK_COMMAND, QUIT_COMMAND})

(***************************************************************************)
(* Advanced dialect.  The declaration is a table from paths (the names     *)
(* from the root down) to nodes; a node has the set of reserved tags it    *)
(* carries, the value of its `command` tag and, in insertion order, the    *)
(* names of the entries of its `options` tag.                              *)
(***************************************************************************)
TagCommand == "command"
TagOptions == "options"
TagDirectory == "directory"
TagMessage == "message"
TagExitCommand == "exit-command"

\* The text of one directive: the single string, or line n of a mapping.
StringDirective == "cmd"
LineDirective(n) == CASE n = 1 -> "line1" [] n = 2 -> "line2" [] n = 3 -> "line3" [] OTHER -> "line4"

\* let line = 1; while (line in file.command) { push(file.command[line]); line += 1 }
RECURSIVE ReadLines(_, _)
ReadLines(lines, line) ==
    IF line \in lines THEN <<LineDirective(line)>> \o ReadLines(lines, line + 1) ELSE <<>>

addDirectoryToScript(s, file, key) == ScriptUpdateDirectory(s, key, "dir")

addCommandToScript(s, file, key) ==
    LET directives == IF file.command.isString THEN <<StringDirective>>
                      ELSE ReadLines(file.command.lines, 1)
        command == NewCommand(directives)
        withMessage == IF TagMessage \in file.tags
                       THEN [command EXCEPT !.message = <<"msg">>] ELSE command
    IN  ScriptUpdateCommand(s, key, withMessage)

\* The choices of an Option: its children's names, `back` unless the Option is
\* the root, `quit`.
AlwaysBackChoices(optionsKeys, key, name) == optionsKeys \o <<BACK_COMMAND, QUIT_COMMAND>>
advancedChoices(optionsKeys, key, name) ==
    optionsKeys \o (IF key # name THEN <<BACK_COMMAND>> ELSE <<>>) \o <<QUIT_COMMAND>>

RECURSIVE parseAdvancedScript(_, _, _, _)
RECURSIVE parseOptions(_, _, _, _, _)

\* optionsKeys.forEach(optionsKey => parseAdvancedScript({ ..., key: `${key}.${optionsKey}` }))
parseOptions(s, decl, path, key, optionsKeys) ==
    IF optionsKeys = <<>> THEN s
    ELSE parseOptions(
            parseAdvancedScript(s, decl, Append(path, Head(optionsKeys)),
                                ChildKey(key, Head(optionsKeys))),
            decl, path, key, Tail(optionsKeys))

addOptionToScript(s, decl, path, key) ==
    LET file == decl[path]
        optionsKeys == ObjectKeys(file.children)
        parsed == parseOptions(s, decl, path, key, optionsKeys)
        choices == advancedChoices(optionsKeys, key, s.name)
        option == NewOption(getNameFromKey(key), choices)
        withMessage == IF TagMessage \in file.tags
                       THEN [option EXCEPT !.message = <<"msg">>] ELSE option
    IN  ScriptUpdateOption(parsed, key, withMessage)

parseAdvancedScript(s, decl, path, key) ==
    LET file == decl[path]
        s1 == IF TagDirectory \in file.tags THEN addDirectoryToScript(s, file, key) ELSE s
    IN  IF TagCommand \in file.tags THEN addCommandToScript(s1, file, key)
        ELSE IF TagOptions \in file.tags THEN addOptionToScript(s1, decl, path, key)
        ELSE s1


(***************************************************************************)
(* Simple dialect.  The file is one bare directive string, or a flat       *)
(* mapping from colon-delimited paths to directive strings; flatKeys are   *)
(* the mapping's keys in insertion order.                                  *)
(***************************************************************************)
isEmptyString(str) == str = <<>>

MapSeq(arr, F(_)) == [i \in 1..Len(arr) |-> F(arr[i])]

\* key => key.includes(':') ? key.substring(0, key.indexOf(':')) : key
FirstSegment(key) ==
    IF IndexOf(key, SIMPLE_SCRIPT_OPTION_SEPARATOR) # -1
    THEN Substring(key, 0, IndexOf(key, SIMPLE_SCRIPT_OPTION_SEPARATOR))
    ELSE key

\* The keys getChoicesFromKeys keeps for a starting key.
startsWithStartingKey(key, prefix) == IndexOf(key, prefix) = 0

getChoicesFromKeys(keys, startingKey) ==
    LET prefix == ReplaceAll(startingKey, ".", SIMPLE_SCRIPT_OPTION_SEPARATOR)
        kept == SelectSeq(keys, LAMBDA key : startsWithStartingKey(key, prefix))
        stripped == MapSeq(kept, LAMBDA key :
                        IF ~isEmptyString(startingKey)
                        THEN RemoveFirst(key, prefix \o SIMPLE_SCRIPT_OPTION_SEPARATOR)
                        ELSE key)
        firsts == MapSeq(stripped, FirstSegment)
        nonEmpty == SelectSeq(firsts, LAMBDA key : ~isEmptyString(key))
    IN  Dedupe(nonEmpty)

\* The choices an existing Option gets when it is updated with new choices.
OverwriteChoices(originalChoices, choices) == choices
unionChoices(originalChoices, choices) ==
    Dedupe(getUndocumentedChoices(originalChoices) \o choices)

addOrUpdateOptionToSimpleScript(s, optionKey, choices) ==
    LET option == NewOption(optionKey, choices)
    IN  IF ~ScriptHasOption(s, optionKey)
        THEN ScriptUpdateOption(s, optionKey, option)
        ELSE ScriptUpdateOption(s, optionKey,
                [option EXCEPT !.choices =
                    unionChoices(s.options[optionKey].choices, option.choices)])

addCommandToSimpleScript(s, key) ==
    LET commandKey == ChildKey(s.name, ReplaceAll(key, ":", KEY_SEPARATOR))
    IN  ScriptUpdateCommand(s, commandKey, NewCommand(<<StringDirective>>))

\* getOptionsKeysFromKey: the proper path prefixes of a flat key, shortest
\* first, written with the hierarchical separator ('a:b:c' => ['a', 'a.b']).
getOptionsKeysFromKey(key) ==
    LET colons == {at \in 0..(Len(key) - 1) : key[at + 1] = ":"}
        ordered[n \in 0..Cardinality(colons)] ==
            IF n = 0 THEN <<>>
            ELSE LET at == CHOOSE c \in colons :
                                Cardinality({d \in colons : d < c}) = n - 1
                 IN  Append(ordered[n - 1],
                            ReplaceAll(Substring(key, 0, at), ":", KEY_SEPARATOR))
    IN  ordered[Cardinality(colons)]

RECURSIVE addOptionsOfKey(_, _, _)
\* optionKeys.forEach(optionKey => addOrUpdateOptionToSimpleScript(...))
addOptionsOfKey(s, keys, optionKeys) ==
    IF optionKeys = <<>> THEN s
    ELSE addOptionsOfKey(
            addOrUpdateOptionToSimpleScript(
                s, ChildKey(s.name, Head(optionKeys)),
                getChoicesFromKeys(keys, Head(optionKeys))
                    \o <<BACK_COMMAND, QUIT_COMMAND>>),
            keys, Tail(optionKeys))

RECURSIVE addKeys(_, _, _)
\* keys.forEach(key => { addCommandToSimpleScript(...); optionKeys.forEach(...) })
addKeys(s, keys, rest) ==
    IF rest = <<>> THEN s
    ELSE addKeys(
            addOptionsOfKey(addCommandToSimpleScript(s, Head(rest)), keys,
                            getOptionsKeysFromKey(Head(rest))),
            keys, Tail(rest))

parseSimpleScript(s, fileIsString, inserted) ==
    IF fileIsString
    THEN ScriptUpdateCommand(s, s.name, NewCommand(<<StringDirective>>))
    ELSE LET keys == ObjectKeys(inserted)
             withRoot == addOrUpdateOptionToSimpleScript(
                            s, s.name,
                            getChoicesFromKeys(keys, <<>>) \o <<QUIT_COMMAND>>)
         IN  addKeys(withRoot, keys, keys)

(***************************************************************************)
(* The declarations the model draws from.                                  *)
(***************************************************************************)
\* Names of declared nodes: a plain name, an integer-like name, a name with
\* whitespace.  The reserved labels back, quit and add-command are no names.
NodeNames == {<<"a">>, <<"1">>, <<"a", " ", "b">>}

\* The `command` values: a string, lines 1..2, lines 1 and 3 (a gap).
CommandValues ==
    {[isString |-> TRUE, lines |-> {}],
     [isString |-> FALSE, lines |-> {1, 2}],
     [isString |-> FALSE, lines |-> {1, 3}]}

NoCommand == [isString |-> TRUE, lines |-> {}]

\* The nodes: the tags a node carries and its `command` value.
NodeKinds ==
    {[tags |-> {TagCommand}, command |-> c] : c \in CommandValues}
    \cup {[tags |-> t, command |-> NoCommand] :
            t \in {{TagOptions}, {TagOptions, TagMessage}, {TagExitCommand},
                   {TagCommand, TagOptions}, {TagCommand, TagDirectory},
                   {TagOptions, TagDirectory}}}

NewNode(kind) == [tags |-> kind.tags, command |-> kind.command, children |-> <<>>]

FlatKeyPool ==
    {<<"a">>, <<"a", ":", "b">>, <<"a", "b", ":", "c">>, <<"a", ":", "b", ":", "c">>}

(***************************************************************************)
(* Modify mode: the derived copy.                                          *)
(*                                                                         *)
(* Option objects are mutable and may be shared, so the derived copy is    *)
(* computed on a store of Option objects: a Script holds, for each option  *)
(* key, the address of its Option, and an update of an Option changes the  *)
(* store at that address whoever else holds it.                            *)
(***************************************************************************)
containsWhitespace(str) == Includes(str, " ")

replaceWhitespace(str, by) == ReplaceAll(str, " ", by)

\* Array.prototype.splice(index, 0, item): a negative index counts from the end.
Splice(arr, index, item) ==
    LET from == IF index < 0
                THEN (IF Len(arr) + index < 0 THEN 0 ELSE Len(arr) + index)
                ELSE (IF index > Len(arr) THEN Len(arr) ELSE index)
    IN  SubSeq(arr, 1, from) \o <<item>> \o SubSeq(arr, from + 1, Len(arr))

\* let index = choices.indexOf('back') > -1 ? choices.indexOf('back') : choices.indexOf('quit')
SentinelIndex(choices) ==
    IF ArrayIndexOf(choices, BACK_COMMAND) > -1
    THEN ArrayIndexOf(choices, BACK_COMMAND)
    ELSE ArrayIndexOf(choices, QUIT_COMMAND)

\* The addresses of a Script's own Options, and of the Options of its copy.
OwnAddress(k) == <<"script", k>>
CopyAddress(k) == <<"copy", k>>

\* The store holding the Options of s at their own addresses.
StoreOf(s) == [a \in {OwnAddress(k) : k \in DOMAIN s.options} |-> s.options[a[2]]]

\* Script.copy: a clone that shares no Option with its source.  The result is
\* the store with the clones added, and the copy's option addresses.
ScriptCopy(store, s) ==
    [store |-> [a \in (DOMAIN store) \cup {CopyAddress(k) : k \in DOMAIN s.options} |->
                    IF a \in DOMAIN store THEN store[a] ELSE s.options[a[2]]],
     options |-> [k \in DOMAIN s.options |-> CopyAddress(k)]]

\* The message of an Option of the derived copy.
modifiedMessage(message) == <<"Add a ", "command", " to ">> \o message

\* choices.filter(choice => ...): the choices kept, or the TypeError that the
\* assignment to the constant `key` raises at a choice holding whitespace.
RECURSIVE getOptionChoicesWithoutCommands(_, _, _)
getOptionChoicesWithoutCommands(s, optionKey, choices) ==
    IF choices = <<>> THEN [threw |-> FALSE, choices |-> <<>>]
    ELSE IF containsWhitespace(Head(choices)) THEN [threw |-> TRUE, choices |-> <<>>]
    ELSE LET rest == getOptionChoicesWithoutCommands(s, optionKey, Tail(choices))
         IN  IF ScriptGetCommand(s, ChildKey(optionKey, Head(choices)))
             THEN rest
             ELSE [rest EXCEPT !.choices = <<Head(choices)>> \o @]

\* choices.splice(index, 0, ADD_COMMAND) at the index of back, else of quit.
AppendAddingChoice(choices) == Append(choices, ADD_COMMAND)
getOptionChoicesWithAddingChoices(choices) ==
    Splice(choices, SentinelIndex(choices), ADD_COMMAND)

\* The loop of getScriptModifiedForAdding over the option keys of the copied
\* Script, whose Options are at the addresses `options` of the store.  The
\* keys are taken in an arbitrary order: each Option is changed on its own.
RECURSIVE modifyOptions(_, _, _, _)
modifyOptions(store, s, options, keys) ==
    IF keys = {} THEN [threw |-> FALSE, store |-> store]
    ELSE LET optionKey == CHOOSE k \in keys : TRUE
             at == options[optionKey]
             renamed == [store EXCEPT ![at].message = modifiedMessage(@)]
             kept == getOptionChoicesWithoutCommands(s, optionKey, renamed[at].choices)
             filtered == [renamed EXCEPT ![at].choices = kept.choices]
             added == [filtered EXCEPT ![at].choices =
                            getOptionChoicesWithAddingChoices(@)]
         IN  IF kept.threw THEN [threw |-> TRUE, store |-> renamed]
             ELSE modifyOptions(added, s, options, keys \ {optionKey})

\* The Script whose Options are read from the store at the given addresses.
ReadScript(s, store, options) ==
    [s EXCEPT !.options = [k \in DOMAIN options |-> store[options[k]]]]

\* getScriptModifiedForAdding without the copy: the Script itself is modified.
getScriptModifiedInPlace(s) ==
    LET own == [k \in DOMAIN s.options |-> OwnAddress(k)]
        done == modifyOptions(StoreOf(s), s, own, DOMAIN s.options)
    IN  [threw |-> done.threw,
         original |-> ReadScript(s, done.store, own),
         copied |-> ReadScript(s, done.store, own)]

\* getScriptModifiedForAdding: what the call leaves of the original Script,
\* the derived copy it returns, and whether it threw instead of returning.
getScriptModifiedForAdding(s) ==
    LET own == [k \in DOMAIN s.options |-> OwnAddress(k)]
        copy == ScriptCopy(StoreOf(s), s)
        done == modifyOptions(copy.store, s, copy.options, DOMAIN s.options)
    IN  [threw |-> done.threw,
         original |-> ReadScript(s, done.store, own),
         copied |-> ReadScript(s, done.store, copy.options)]

(***************************************************************************)
(* Modify mode: the CommandAdder and the add-command session.              *)
(***************************************************************************)
\* The questions of the CommandAdder, in order.
Questions == <<"name", "directive", "message", "path">>

NoAnswers == [name |-> <<>>, directive |-> "", message |-> <<>>, path |-> ""]

\* new CommandAdder(): nothing asked, nothing answered.
NewCommandAdder == [asked |-> 0, answers |-> NoAnswers]

\* CommandAdder.nextAnswer: the answer recorded against the pending question
\* (nothing is recorded while no question has been asked).
nextAnswer(a, answer) ==
    IF a.asked = 0 THEN a
    ELSE [a EXCEPT !.answers = [@ EXCEPT ![Questions[a.asked]] = answer]]

\* CommandAdder.nextQuestion: the next question, or none when all are answered.
hasNextQuestion(a) == a.asked < Len(Questions)
nextQuestion(a) == [a EXCEPT !.asked = @ + 1]

\* The answers the user may give to a question.
AnswerNames == {<<"a">>, <<"1">>, <<"n", " ", "x">>}
AnswersTo(question) ==
    CASE question = "name" -> AnswerNames
      [] question = "directive" -> {"newcmd"}
      [] question = "message" -> {<<>>}
      [] OTHER -> {"", "dir2"}

\* The name is placed before `back`, or before `quit` when the Option has no
\* `back`, unless the Option already has it as a choice.
insertAgain(s, optionKey, answers) ==
    [s EXCEPT !.options[optionKey].choices =
        Splice(@, SentinelIndex(@), answers.name)]
addCommandToOptionChoices(s, optionKey, answers) ==
    LET choices == s.options[optionKey].choices
    IN  IF ~Includes(choices, answers.name)
        THEN [s EXCEPT !.options[optionKey].choices =
                    Splice(choices, SentinelIndex(choices), answers.name)]
        ELSE s

\* The Script after the command is stored under commandKey, its directory
\* set when a path was given, and the name added to the Option's choices.
storeCommand(s, optionKey, commandKey, command, answers) ==
    LET stored == ScriptUpdateCommand(s, commandKey, command)
        placed == IF answers.path # ""
                  THEN ScriptUpdateDirectory(stored, commandKey, answers.path)
                  ELSE stored
    IN  addCommandToOptionChoices(placed, optionKey, answers)

\* addCommand: the Script after it, and the number of saves it makes.
addCommand(s, optionKey, commandKey, command, answers) ==
    [script |-> storeCommand(s, optionKey, commandKey, command, answers), saves |-> 1]

\* The subscriber of updateCommand on the answer to the confirmation prompt.
replaceUnasked(s, optionKey, commandKey, command, answers, answer) ==
    [script |-> storeCommand(s, optionKey, commandKey, command, answers), saves |-> 1]
updateCommand(s, optionKey, commandKey, command, answers, answer) ==
    IF answer
    THEN [script |-> storeCommand(s, optionKey, commandKey, command, answers), saves |-> 1]
    ELSE [script |-> s, saves |-> 0]

\* The end of the add-command subscriber, once no question remains: the leaf
\* key is the chosen name; a name holding whitespace makes the assignment to
\* the constant `key` throw before anything is stored.
leafKeyThrows(name) == containsWhitespace(name)
commandKeyOf(optionKey, name) == ChildKey(optionKey, name)
newCommandOf(answers) == [directives |-> <<answers.directive>>, message |-> answers.message]

NoTarget == [optionKey |-> <<>>, commandKey |-> <<>>]

(***************************************************************************)
(* The declarations a saved Script of the modify sessions is parsed from.  *)
(***************************************************************************)
CommandNode == [tags |-> {TagCommand}, command |-> NoCommand, children |-> <<>>]

SavedDeclarations ==
    { (<<>> :> [tags |-> {TagOptions, TagMessage}, command |-> NoCommand,
                children |-> <<<<"a">>, <<"1">>>>])
        @@ (<<<<"a">>>> :> [tags |-> {TagOptions}, command |-> NoCommand,
                            children |-> <<<<"1">>>>])
        @@ (<<<<"a">>, <<"1">>>> :> CommandNode)
        @@ (<<<<"1">>>> :> [CommandNode EXCEPT !.tags = {TagCommand, TagDirectory}]),
      (<<>> :> [tags |-> {TagOptions}, command |-> NoCommand,
                children |-> <<<<"a">>, <<"a", " ", "b">>>>])
        @@ (<<<<"a">>>> :> [tags |-> {TagOptions}, command |-> NoCommand,
                            children |-> <<>>])
        @@ (<<<<"a", " ", "b">>>> :> CommandNode) }

SavedFlatFiles == { <<<<"a", ":", "b">>, <<"a", ":", "c">>>> }

(***************************************************************************)
(* The delete operation on the registry of saved scripts.                  *)
(***************************************************************************)
\* The names a saved script may have, in the order the registry lists them,
\* and a name that no saved script has.
SavedNames == <<<<"s">>, <<"t">>, <<"u">>>>
UnknownName == <<"x">>

\* GlobalConfig with the scripts of the given names.
NewGlobalConfig(names) ==
    [scripts |-> [n \in names |-> NewScript(n)],
     scriptNames |-> SelectSeq(SavedNames, LAMBDA n : n \in names)]

GlobalConfigGetScripts(config) == config.scripts
GlobalConfigGetScript(config, name) == name \in DOMAIN config.scripts
GlobalConfigRemoveScript(config, name) ==
    [config EXCEPT !.scripts = [n \in (DOMAIN @) \ {name} |-> @[n]]]
GlobalConfigRemoveScriptName(config, name) ==
    [config EXCEPT !.scriptNames = SelectSeq(@, LAMBDA n : n # name)]

\* The subscriber of shouldDeleteScript on the answer to the confirmation
\* prompt: the registry after it, the saves and the exits it makes.
deleteUnasked(config, name, answer) ==
    [config |-> GlobalConfigRemoveScriptName(GlobalConfigRemoveScript(config, name), name),
     saves |-> 1, exits |-> 1]
shouldDeleteScript(config, name, answer) ==
    IF answer = FALSE
    THEN [config |-> config, saves |-> 0, exits |-> 1]
    ELSE [config |-> GlobalConfigRemoveScriptName(GlobalConfigRemoveScript(config, name), name),
          saves |-> 1, exits |-> 1]

DeleteInit ==
    /\ globalConfig = NewGlobalConfig({ScriptName})
    /\ args = <<>>
    /\ scriptName = <<>>
    /\ shouldDelete = "none"
    /\ exits = 0

(***************************************************************************)
(* The program.                                                            *)
(***************************************************************************)
ModifyInit ==
    /\ derived = NewScript(ScriptName)
    /\ current = <<>>
    /\ adder = NewCommandAdder
    /\ target = NoTarget
    /\ confirmed = "none"
    /\ saves = 0
    /\ adds = 0
    /\ outstanding = 0
    /\ touched = 0

Init ==
    /\ pc = "edit"
    /\ scriptType \in {"advanced", "simple"}
    /\ IF scriptType = "advanced"
       THEN /\ \E kind \in NodeKinds : nodes = [p \in {<<>>} |-> NewNode(kind)]
            /\ isString = FALSE
       ELSE /\ nodes = <<>>
            /\ isString \in BOOLEAN
    /\ flatKeys = <<>>
    /\ script = NewScript(ScriptName)
    /\ parses = 0
    /\ lastFile = <<>>
    /\ prevFile = <<>>
    /\ prevScript = NewScript(ScriptName)
    /\ ModifyInit
    /\ DeleteInit

\* The author declares one more entry under an `options` tag.
DeclareNode ==
    /\ pc = "edit"
    /\ scriptType = "advanced"
    /\ Cardinality(DOMAIN nodes) <= MaxNodes
    /\ \E parent \in DOMAIN nodes, name \in NodeNames, kind \in NodeKinds :
        /\ TagOptions \in nodes[parent].tags
        /\ ~Includes(nodes[parent].children, name)
        /\ nodes' = Put([nodes EXCEPT ![parent].children = Append(@, name)],
                        Append(parent, name), NewNode(kind))
    /\ UNCHANGED <<pc, scriptType, isString, flatKeys, script, parses,
                   lastFile, prevFile, prevScript, modifyVars, deleteVars>>

\* The author adds one more key to the flat mapping.
DeclareKey ==
    /\ pc = "edit"
    /\ scriptType = "simple"
    /\ ~isString
    /\ Len(flatKeys) < MaxKeys
    /\ \E key \in FlatKeyPool :
        /\ ~Includes(flatKeys, key)
        /\ flatKeys' = Append(flatKeys, key)
    /\ UNCHANGED <<pc, scriptType, nodes, isString, script, parses,
                   lastFile, prevFile, prevScript, modifyVars, deleteVars>>

\* Parser.getScriptFromYamlFile, advanced: a new Script, parsed from the root.
ParseAdvanced ==
    /\ pc = "edit"
    /\ scriptType = "advanced"
    /\ script' = parseAdvancedScript(NewScript(ScriptName), nodes, <<>>, ScriptName)
    /\ prevScript' = script
    /\ parses' = parses + 1
    /\ pc' = "parsed"
    /\ UNCHANGED <<scriptType, nodes, isString, flatKeys, lastFile, prevFile,
                   modifyVars, deleteVars>>

\* Parser.getScriptFromYamlFile, simple: a new Script, parsed from the file.
ParseSimple ==
    /\ pc = "edit"
    /\ scriptType = "simple"
    /\ parses < MaxParses
    /\ script' = parseSimpleScript(NewScript(ScriptName), isString, flatKeys)
    /\ prevScript' = script
    /\ prevFile' = lastFile
    /\ lastFile' = flatKeys
    /\ parses' = parses + 1
    /\ pc' = "parsed"
    /\ UNCHANGED <<scriptType, nodes, isString, flatKeys, modifyVars, deleteVars>>

\* The author edits the parsed simple file further, or starts a new one.
EditFile ==
    /\ pc = "parsed"
    /\ scriptType = "simple"
    /\ parses < MaxParses
    /\ pc' = "edit"
    /\ flatKeys' \in {flatKeys, <<>>}
    /\ UNCHANGED <<scriptType, nodes, isString, script, parses,
                   lastFile, prevFile, prevScript, modifyVars, deleteVars>>

\* The modify handler on the saved Script: the derived copy is built and the
\* menu starts at the root; a throw ends the operation.
ModifyHandler ==
    /\ pc \in {"parsed", "done"}
    /\ adds < MaxAdds
    /\ LET result == getScriptModifiedForAdding(script)
       IN  /\ script' = result.original
           /\ IF result.threw
              THEN pc' = "failed" /\ derived' = NewScript(ScriptName) /\ current' = <<>>
              ELSE pc' = "menu" /\ derived' = result.copied /\ current' = script.name
    /\ adder' = NewCommandAdder
    /\ target' = NoTarget
    /\ confirmed' = "none"
    /\ outstanding' = 0
    /\ touched' = 0
    /\ UNCHANGED <<parseVars, saves, adds, deleteVars>>

\* The menu on the derived copy: the user selects a choice that is an Option
\* of the copy, or back.
Navigate ==
    /\ pc = "menu"
    /\ ScriptHasOption(derived, current)
    /\ \E choice \in Elements(derived.options[current].choices) :
        \/ /\ choice \notin {BACK_COMMAND, QUIT_COMMAND, ADD_COMMAND}
           /\ ScriptHasOption(derived, ChildKey(current, choice))
           /\ current' = ChildKey(current, choice)
        \/ /\ choice = BACK_COMMAND
           /\ current' = SubSeq(current, 1, Len(current) - Len(getNameFromKey(current)) - 1)
    /\ UNCHANGED <<pc, script, parseVars, derived, adder, target, confirmed, saves, adds,
                   outstanding, touched, deleteVars>>

\* The user selects add-command: the menu yields (ADD_COMMAND, current key) and
\* addNewCommand asks the CommandAdder's first question.
SelectAddCommand ==
    /\ pc = "menu"
    /\ ScriptHasOption(derived, current)
    /\ Includes(derived.options[current].choices, ADD_COMMAND)
    /\ target' = [optionKey |-> current, commandKey |-> <<>>]
    /\ adder' = nextQuestion(NewCommandAdder)
    /\ outstanding' = outstanding + 1
    /\ touched' = 0
    /\ pc' = "asking"
    /\ UNCHANGED <<script, parseVars, derived, current, confirmed, saves, adds, deleteVars>>

\* The subscriber of addNewCommand on an answer: the answer is recorded, and
\* the next question is asked or, when none remains, the command is added,
\* the replace confirmation is asked, or the subscriber throws.
Answer ==
    /\ pc = "asking"
    /\ \E answer \in AnswersTo(Questions[adder.asked]) :
        LET recorded == nextAnswer(adder, answer)
            answers == recorded.answers
            commandKey == commandKeyOf(target.optionKey, answers.name)
            added == addCommand(script, target.optionKey, commandKey,
                                newCommandOf(answers), answers)
        IN  IF hasNextQuestion(recorded)
            THEN /\ adder' = nextQuestion(recorded)
                 /\ outstanding' = (outstanding - 1) + 1
                 /\ UNCHANGED <<pc, script, target, saves, adds, touched>>
            ELSE /\ adder' = recorded
                 /\ IF leafKeyThrows(answers.name)
                    THEN /\ pc' = "failed"
                         /\ outstanding' = outstanding - 1
                         /\ UNCHANGED <<script, target, saves, adds, touched>>
                    ELSE /\ target' = [target EXCEPT !.commandKey = commandKey]
                         /\ touched' = touched + 1
                         /\ IF ScriptGetCommand(script, commandKey)
                            THEN /\ pc' = "confirm"
                                 /\ outstanding' = (outstanding - 1) + 1
                                 /\ UNCHANGED <<script, saves, adds>>
                            ELSE /\ pc' = "done"
                                 /\ outstanding' = outstanding - 1
                                 /\ script' = added.script
                                 /\ saves' = saves + added.saves
                                 /\ adds' = adds + 1
    /\ UNCHANGED <<parseVars, derived, current, confirmed, deleteVars>>

\* The subscriber of updateCommand on the answer to the confirmation prompt.
Confirm ==
    /\ pc = "confirm"
    /\ \E answer \in BOOLEAN :
        LET result == updateCommand(script, target.optionKey, target.commandKey,
                                    newCommandOf(adder.answers), adder.answers, answer)
        IN  /\ script' = result.script
            /\ saves' = saves + result.saves
            /\ confirmed' = IF answer THEN "yes" ELSE "no"
    /\ adds' = adds + 1
    /\ outstanding' = outstanding - 1
    /\ pc' = "done"
    /\ UNCHANGED <<parseVars, derived, current, adder, target, touched, deleteVars>>

\* Declaration, parse, and the derived copy of modify mode.
Next ==
    \/ DeclareNode
    \/ DeclareKey
    \/ ParseAdvanced
    \/ ParseSimple
    \/ EditFile
    \/ ModifyHandler

Spec == Init /\ [][Next]_vars

\* parseSimpleScript({ script, file }) as a function of the Script it is given:
\* the call is applied to the Script that the calls before it filled.
AugmentSimple ==
    /\ pc = "edit"
    /\ scriptType = "simple"
    /\ parses < MaxParses
    /\ script' = parseSimpleScript(script, isString, flatKeys)
    /\ prevScript' = script
    /\ prevFile' = lastFile
    /\ lastFile' = flatKeys
    /\ parses' = parses + 1
    /\ pc' = "parsed"
    /\ UNCHANGED <<scriptType, nodes, isString, flatKeys, modifyVars, deleteVars>>

InitSimple == Init /\ scriptType = "simple"

NextAugment ==
    \/ DeclareKey
    \/ AugmentSimple
    \/ EditFile

SpecAugment == InitSimple /\ [][NextAugment]_vars

\* Modify sessions on a saved Script.
InitSaved ==
    /\ pc = "parsed"
    /\ scriptType \in {"advanced", "simple"}
    /\ isString = FALSE
    /\ IF scriptType = "advanced"
       THEN /\ nodes \in SavedDeclarations
            /\ flatKeys = <<>>
            /\ script = parseAdvancedScript(NewScript(ScriptName), nodes, <<>>, ScriptName)
       ELSE /\ nodes = <<>>
            /\ flatKeys \in SavedFlatFiles
            /\ script = parseSimpleScript(NewScript(ScriptName), FALSE, flatKeys)
    /\ parses = 1
    /\ lastFile = flatKeys
    /\ prevFile = <<>>
    /\ prevScript = NewScript(ScriptName)
    /\ ModifyInit
    /\ DeleteInit

NextModify ==
    \/ ModifyHandler
    \/ Navigate
    \/ SelectAddCommand
    \/ Answer
    \/ Confirm

SpecModify == InitSaved /\ [][NextModify]_vars

(***************************************************************************)
(* The program: the delete operation.                                      *)
(***************************************************************************)
\* run(args) of the delete operation.
DeleteRun ==
    /\ pc = "delete"
    /\ IF DOMAIN GlobalConfigGetScripts(globalConfig) = {}
       THEN pc' = "exited" /\ exits' = exits + 1 /\ UNCHANGED scriptName
       ELSE IF args = <<>>
       THEN pc' = "deleteMenu" /\ UNCHANGED <<scriptName, exits>>
       ELSE IF GlobalConfigGetScript(globalConfig, args[1])
       THEN pc' = "deletePrompt" /\ scriptName' = args[1] /\ UNCHANGED exits
       ELSE pc' = "exited" /\ exits' = exits + 1 /\ UNCHANGED scriptName
    /\ UNCHANGED <<script, parseVars, modifyVars, globalConfig, args, shouldDelete>>

\* The menu of saved scripts: the user selects one, and the menu runs the
\* operation with that name as its argument.
DeleteMenuSelect ==
    /\ pc = "deleteMenu"
    /\ \E name \in DOMAIN GlobalConfigGetScripts(globalConfig) : args' = <<name>>
    /\ pc' = "delete"
    /\ UNCHANGED <<script, parseVars, modifyVars, globalConfig, scriptName,
                   shouldDelete, exits>>

\* The subscriber of shouldDeleteScript on the answer to the confirmation.
DeleteAnswer ==
    /\ pc = "deletePrompt"
    /\ \E answer \in BOOLEAN :
        LET result == shouldDeleteScript(globalConfig, scriptName, answer)
        IN  /\ globalConfig' = result.config
            /\ saves' = saves + result.saves
            /\ exits' = exits + result.exits
            /\ shouldDelete' = IF answer THEN "yes" ELSE "no"
    /\ pc' = "exited"
    /\ UNCHANGED <<script, parseVars, derived, current, adder, target, confirmed,
                   adds, outstanding, touched, args, scriptName>>

\* The delete operation on a registry, with no argument, the name of a saved
\* script or an unknown name.
InitDeleting ==
    /\ pc = "delete"
    /\ scriptType = "advanced"
    /\ nodes = <<>>
    /\ isString = FALSE
    /\ flatKeys = <<>>
    /\ script = NewScript(ScriptName)
    /\ parses = 0
    /\ lastFile = <<>>
    /\ prevFile = <<>>
    /\ prevScript = NewScript(ScriptName)
    /\ ModifyInit
    /\ \E names \in SUBSET Elements(SavedNames) : globalConfig = NewGlobalConfig(names)
    /\ args \in {<<>>} \cup {<<n>> : n \in Elements(SavedNames) \cup {UnknownName}}
    /\ scriptName = <<>>
    /\ shouldDelete = "none"
    /\ exits = 0

NextDelete ==
    \/ DeleteRun
    \/ DeleteMenuSelect
    \/ DeleteAnswer

SpecDelete == InitDeleting /\ [][NextDelete]_vars

(***************************************************************************)
(* Notions the claims are stated in.                                       *)
(***************************************************************************)
\* The hierarchical key of the node at a path of the advanced declaration.
RECURSIVE KeyOfPath(_)
KeyOfPath(path) ==
    IF path = <<>> THEN ScriptName
    ELSE ChildKey(KeyOfPath(SubSeq(path, 1, Len(path) - 1)), path[Len(path)])

\* The colon-delimited segments of a flat key.
RECURSIVE Segments(_)
Segments(key) ==
    LET at == IndexOf(key, SIMPLE_SCRIPT_OPTION_SEPARATOR)
    IN  IF at = -1 THEN <<key>>
        ELSE <<Substring(key, 0, at)>> \o Segments(Substring(key, at + 1, Len(key)))

\* The hierarchical key below the script name that a sequence of segments names.
RECURSIVE KeyOfSegments(_)
KeyOfSegments(segs) ==
    IF segs = <<>> THEN ScriptName
    ELSE ChildKey(KeyOfSegments(SubSeq(segs, 1, Len(segs) - 1)), segs[Len(segs)])

IsPrefix(p, q) == Len(p) <= Len(q) /\ SubSeq(q, 1, Len(p)) = p

NoDuplicates(arr) == \A i, j \in 1..Len(arr) : arr[i] = arr[j] => i = j

Count(arr, x) == Cardinality({i \in 1..Len(arr) : arr[i] = x})

NonSentinels(s, k) == Elements(getUndocumentedChoices(s.options[k].choices))

(***************************************************************************)
(* C1: in a Script produced by the advanced or the simple parser, every    *)
(* non-sentinel choice c of the Option at key k names a key k.c that is in *)
(* exactly one of script.options and script.commands.                      *)
(***************************************************************************)
C1_ChoicesResolveToExactlyOne ==
    pc = "parsed" =>
        \A k \in DOMAIN script.options : \A c \in NonSentinels(script, k) :
            ScriptHasOption(script, ChildKey(k, c)) # ScriptGetCommand(script, ChildKey(k, c))

(***************************************************************************)
(* C2: in the Script that getScriptModifiedForAdding returns, no choice of *)
(* any Option names a key of the script's commands, and add-command occurs *)
(* exactly once in every choice list, immediately before back when the     *)
(* Option has back and otherwise immediately before quit.                  *)
(***************************************************************************)
C2_DerivedCopyChoices ==
    pc = "menu" =>
        \A k \in DOMAIN derived.options :
            LET choices == derived.options[k].choices
                at == ArrayIndexOf(choices, ADD_COMMAND) + 1
            IN  /\ \A c \in Elements(choices) : ~ScriptGetCommand(derived, ChildKey(k, c))
                /\ Count(choices, ADD_COMMAND) = 1
                /\ at < Len(choices)
                /\ choices[at + 1] = IF Includes(choices, BACK_COMMAND)
                                     THEN BACK_COMMAND ELSE QUIT_COMMAND

\* A derived copy in which a non-root Option lost a command choice.
C2_Witness ==
    /\ pc = "menu"
    /\ \E k \in DOMAIN derived.options :
        /\ Includes(derived.options[k].choices, BACK_COMMAND)
        /\ \E c \in Elements(script.options[k].choices) :
            /\ ScriptGetCommand(script, ChildKey(k, c))
            /\ ~Includes(derived.options[k].choices, c)

(***************************************************************************)
(* C3: building the derived copy leaves the original Script unchanged: the *)
(* step of the modify handler that builds the copy (or throws) leaves      *)
(* every Option of the original with the message and choices it had.       *)
(***************************************************************************)
C3_OriginalUnchanged ==
    [][(pc \in {"parsed", "done"} /\ pc' \in {"menu", "failed"}) => script' = script]_vars

\* A derived copy was built whose Option differs from the original's, which
\* holds a command choice and no add-command.
C3_Witness ==
    /\ pc = "menu"
    /\ \E k \in DOMAIN script.options :
        /\ derived.options[k].message # script.options[k].message
        /\ Includes(derived.options[k].choices, ADD_COMMAND)
        /\ ~Includes(script.options[k].choices, ADD_COMMAND)
        /\ \E c \in Elements(script.options[k].choices) :
            ScriptGetCommand(script, ChildKey(k, c))

(***************************************************************************)
(* C4: parseSimpleScript applied again to the Script it filled is           *)
(* idempotent and preserving:                                              *)
(* parsing the mapping of the previous parse again leaves every Option's   *)
(* choice set as it was, a parse keeps every non-sentinel choice an Option *)
(* already had, and no choice occurs twice in a choice list.               *)
(***************************************************************************)
C4_SimpleAugmentation ==
    (scriptType = "simple" /\ pc = "parsed") =>
        /\ \A k \in DOMAIN script.options : NoDuplicates(script.options[k].choices)
        /\ parses >= 2 =>
            \A k \in DOMAIN prevScript.options :
                /\ k \in DOMAIN script.options
                /\ NonSentinels(prevScript, k) \subseteq Elements(script.options[k].choices)
        /\ (parses >= 2 /\ lastFile = prevFile) =>
            /\ DOMAIN script.options = DOMAIN prevScript.options
            /\ \A k \in DOMAIN script.options :
                Elements(script.options[k].choices) = Elements(prevScript.options[k].choices)

\* A second, different mapping was parsed, and an Option kept a choice that the
\* second mapping alone does not give it while gaining one it did not have.
C4_Witness ==
    /\ scriptType = "simple" /\ pc = "parsed" /\ parses = 2 /\ lastFile # prevFile
    /\ \E k \in DOMAIN prevScript.options :
        LET alone == parseSimpleScript(NewScript(ScriptName), isString, lastFile)
        IN  /\ k \in DOMAIN alone.options
            /\ NonSentinels(prevScript, k) \ NonSentinels(alone, k) # {}
            /\ NonSentinels(alone, k) \ NonSentinels(prevScript, k) # {}
            /\ Count(script.options[k].choices, QUIT_COMMAND) = 1

(***************************************************************************)
(* C5: when the command key computed from the answers already exists, the  *)
(* session only asks for confirmation; an existing Command changes only in *)
(* the step that answers the confirmation affirmatively; and a negative    *)
(* answer leaves the Script unchanged and saves nothing.                   *)
(***************************************************************************)
C5_ReplaceOnlyWhenConfirmed ==
    [][/\ \A k \in DOMAIN script.commands :
            (k \in DOMAIN script'.commands /\ script'.commands[k] # script.commands[k])
                => (pc = "confirm" /\ confirmed' = "yes")
       /\ (pc = "asking" /\ pc' # "asking" /\ target'.commandKey \in DOMAIN script.commands)
            => (pc' = "confirm" /\ script' = script /\ saves' = saves)
       /\ (pc = "confirm" /\ confirmed' = "no")
            => (script' = script /\ saves' = saves)]_vars

\* The user declined to replace an existing command.
C5_Witness ==
    /\ pc = "done"
    /\ confirmed = "no"
    /\ target.commandKey \in DOMAIN script.commands
    /\ script.commands[target.commandKey] # newCommandOf(adder.answers)

(***************************************************************************)
(* C6: when the CommandAdder completes, with any chosen name, the session  *)
(* finishes and the new Command is stored under <optionKey>.<name with its *)
(* whitespace replaced by the separator>.                                  *)
(***************************************************************************)
C6_StoredUnderReplacedName ==
    (pc \in {"done", "failed", "confirm"} /\ adder.asked = Len(Questions)) =>
        LET commandKey == ChildKey(target.optionKey,
                                   replaceWhitespace(adder.answers.name, KEY_SEPARATOR))
        IN  /\ pc # "failed"
            /\ (pc = "done" /\ confirmed # "no") =>
                /\ ScriptGetCommand(script, commandKey)
                /\ script.commands[commandKey] = newCommandOf(adder.answers)

(***************************************************************************)
(* C7: after any sequence of add-command sessions on a parsed Script, no   *)
(* key is in both script.options and script.commands.                      *)
(***************************************************************************)
C7_OptionOrCommand ==
    (DOMAIN script.options) \cap (DOMAIN script.commands) = {}

(***************************************************************************)
(* C8: after the simple parse of a flat mapping into a new Script, the     *)
(* root Option's non-sentinel choices are the first segments of the keys,  *)
(* and for every proper prefix p of a key the Option at <name>.<p> has as  *)
(* non-sentinel choices exactly the segments that follow p in the keys     *)
(* that start with the whole segments of p.                                *)
(***************************************************************************)
C8_InferredOptionTree ==
    (scriptType = "simple" /\ pc = "parsed" /\ parses = 1 /\ ~isString) =>
        LET segs == {Segments(flatKeys[i]) : i \in 1..Len(flatKeys)}
            prefixes == UNION {{SubSeq(sg, 1, n) : n \in 0..Len(sg)} : sg \in segs}
            proper == {p \in prefixes : \E sg \in segs : IsPrefix(p, sg) /\ Len(p) < Len(sg)}
        IN  \A p \in proper \cup {<<>>} :
                /\ ScriptHasOption(script, KeyOfSegments(p))
                /\ NonSentinels(script, KeyOfSegments(p)) =
                    {sg[Len(p) + 1] : sg \in {x \in segs : IsPrefix(p, x) /\ Len(p) < Len(x)}}

(***************************************************************************)
(* C9: after advanced parse, the non-sentinel choices of each Option are   *)
(* the names of the node's children under `options`, in declared order.    *)
(***************************************************************************)
C9_DeclaredChoiceOrder ==
    (scriptType = "advanced" /\ pc = "parsed") =>
        \A path \in DOMAIN nodes :
            ScriptHasOption(script, KeyOfPath(path)) =>
                getUndocumentedChoices(script.options[KeyOfPath(path)].choices)
                    = nodes[path].children

(***************************************************************************)
(* C10: after advanced parse, a non-root Option's choices end with back    *)
(* then quit, each occurring once; the root Option's choices end with quit *)
(* and hold no back.                                                       *)
(***************************************************************************)
C10_TrailingSentinels ==
    (scriptType = "advanced" /\ pc = "parsed") =>
        \A k \in DOMAIN script.options :
            LET choices == script.options[k].choices
                n == Len(choices)
            IN  IF k # script.name
                THEN /\ n >= 2
                     /\ choices[n - 1] = BACK_COMMAND
                     /\ choices[n] = QUIT_COMMAND
                     /\ Count(choices, BACK_COMMAND) = 1
                     /\ Count(choices, QUIT_COMMAND) = 1
                ELSE /\ n >= 1
                     /\ choices[n] = QUIT_COMMAND
                     /\ Count(choices, QUIT_COMMAND) = 1
                     /\ ~Includes(choices, BACK_COMMAND)

\* A parsed tree with a root Option and a non-root Option that has a child.
C10_Witness ==
    /\ scriptType = "advanced" /\ pc = "parsed"
    /\ ScriptHasOption(script, script.name)
    /\ \E k \in DOMAIN script.options :
        k # script.name /\ Len(script.options[k].choices) = 3

(***************************************************************************)
(* C11: after advanced parse, the Command parsed from a positional         *)
(* `command` mapping holds every directive line of the mapping (the parse  *)
(* has no failing outcome): it is never cut at the first gap of the        *)
(* numbering.                                                              *)
(***************************************************************************)
C11_NoSilentTruncation ==
    (scriptType = "advanced" /\ pc = "parsed") =>
        \A path \in DOMAIN nodes :
            (/\ TagCommand \in nodes[path].tags
             /\ ~nodes[path].command.isString
             /\ ScriptGetCommand(script, KeyOfPath(path)))
                => Elements(script.commands[KeyOfPath(path)].directives)
                     = {LineDirective(n) : n \in nodes[path].command.lines}

(***************************************************************************)
(* C12: after advanced parse, an option node that carries the              *)
(* `exit-command` tag has a Command at its key, so that the choice of its  *)
(* parent Option for that node resolves to a Command.                      *)
(***************************************************************************)
C12_ExitCommandIsCommand ==
    (scriptType = "advanced" /\ pc = "parsed") =>
        \A path \in DOMAIN nodes :
            (/\ path # <<>>
             /\ TagExitCommand \in nodes[path].tags
             /\ ScriptHasOption(script, KeyOfPath(SubSeq(path, 1, Len(path) - 1))))
                => ScriptGetCommand(script, KeyOfPath(path))

(***************************************************************************)
(* C13: every key of script.directories is a key of script.commands, in    *)
(* every Script produced by advanced parse and after every add or replace  *)
(* of a command in modify mode.                                            *)
(***************************************************************************)
C13_DirectoryOnlyOnCommand ==
    DOMAIN script.directories \subseteq DOMAIN script.commands

(***************************************************************************)
(* C14: the delete operation changes the registry and saves only in the    *)
(* step that answers the confirmation affirmatively, which removes the     *)
(* named script and saves once; a negative answer leaves the registry as   *)
(* it was and saves nothing; and the step of either answer, of an empty    *)
(* registry and of an unknown name calls the exit step.                    *)
(***************************************************************************)
C14_DeleteOnlyWhenConfirmed ==
    [][/\ (globalConfig' # globalConfig \/ saves' # saves)
            => (pc = "deletePrompt" /\ shouldDelete' = "yes")
       /\ (pc = "deletePrompt" /\ shouldDelete' = "yes")
            => /\ DOMAIN globalConfig'.scripts = (DOMAIN globalConfig.scripts) \ {scriptName}
               /\ ~Includes(globalConfig'.scriptNames, scriptName)
               /\ saves' = saves + 1
               /\ exits' = exits + 1 /\ pc' = "exited"
       /\ (pc = "deletePrompt" /\ shouldDelete' = "no")
            => /\ globalConfig' = globalConfig
               /\ saves' = saves
               /\ exits' = exits + 1 /\ pc' = "exited"
       /\ (pc = "delete" /\ (DOMAIN globalConfig.scripts = {}
                             \/ (args # <<>> /\ args[1] \notin DOMAIN globalConfig.scripts)))
            => (exits' = exits + 1 /\ pc' = "exited")]_vars

\* The user declined to delete a saved script: it is still in the registry,
\* nothing was saved and the operation exited.
C14_Witness ==
    /\ pc = "exited"
    /\ shouldDelete = "no"
    /\ scriptName \in DOMAIN globalConfig.scripts
    /\ Includes(globalConfig.scriptNames, scriptName)
    /\ saves = 0
    /\ exits = 1

(***************************************************************************)
(* C15: in an add-command session one prompt is outstanding while the      *)
(* questions are asked and never more than one; the answers to the         *)
(* questions already asked are recorded when the next one is outstanding;  *)
(* the Script is touched (the command added or the replace confirmation    *)
(* issued) only when no question remains; and a session whose questions    *)
(* are all answered has touched the Script exactly once.                   *)
(***************************************************************************)
C15_OneQuestionAtATime ==
    /\ outstanding <= 1
    /\ pc = "asking" =>
        /\ outstanding = 1
        /\ touched = 0
        /\ adder.asked \in 1..Len(Questions)
        /\ \A i \in 1..(adder.asked - 1) :
            adder.answers[Questions[i]] \in AnswersTo(Questions[i])
    /\ touched >= 1 => ~hasNextQuestion(adder)
    /\ (pc \in {"done", "failed", "confirm"} /\ adder.asked = Len(Questions)) =>
        touched = 1

(***************************************************************************)
(* C16: a completed add-command (an add, or a replace that was confirmed)  *)
(* leaves the choices of the Option as they were when the name is already  *)
(* among them, and otherwise inserts the name immediately before `back`,   *)
(* or immediately before `quit` when the Option has no `back`; after it    *)
(* the choice list has no duplicates and `quit` is its last choice.        *)
(***************************************************************************)
C16_AddedChoicePlacement ==
    [][(adds' = adds + 1 /\ confirmed' # "no") =>
        LET old == script.options[target'.optionKey].choices
            new == script'.options[target'.optionKey].choices
            name == adder'.answers.name
            sentinel == IF Includes(old, BACK_COMMAND) THEN BACK_COMMAND ELSE QUIT_COMMAND
        IN  /\ NoDuplicates(old) /\ old[Len(old)] = QUIT_COMMAND
            /\ IF Includes(old, name) THEN new = old
               ELSE \E i \in 1..Len(old) :
                        /\ old[i] = sentinel
                        /\ new = SubSeq(old, 1, i - 1) \o <<name>> \o SubSeq(old, i, Len(old))
            /\ NoDuplicates(new)
            /\ new[Len(new)] = QUIT_COMMAND
            /\ \A k \in DOMAIN script.options :
                k # target'.optionKey => script'.options[k] = script.options[k]]_vars

\* A second completed add-command placed a new name immediately before `back`
\* in a non-root Option.
C16_Witness ==
    /\ pc = "done" /\ confirmed = "none" /\ adds = 2
    /\ target.optionKey # script.name
    /\ LET choices == script.options[target.optionKey].choices
           at == ArrayIndexOf(choices, adder.answers.name) + 1
       IN  /\ at >= 1
           /\ at < Len(choices)
           /\ choices[at + 1] = BACK_COMMAND
           /\ Len(choices) >= 4

====
